---- MODULE Spec2Model ----
(***************************************************************************)
(* Relay server (websocket-server.ts, lines 1-118) together with the two   *)
(* PhysicsClient implementations of the repository: the plain-script       *)
(* client (lines 119-593) and the typed client (lines 594-962).            *)
(*                                                                         *)
(* Numbers are kept in millionths (9.81 is 9810000, 1.5 is 1500000).       *)
(* An optional (possibly undefined) JavaScript value is a set with at most *)
(* one element: {} is undefined, {v} is the value v.                       *)
(***************************************************************************)
EXTENDS Integers, Sequences, FiniteSets, TLC

\* ------------------------------------------------------------------ bounds
MaxQueue == 1
MaxEvents == 1

\* Connections to the relay.  Peer 1 is always a browser running the
\* repository's client; peer 2 is either a second browser or some other
\* WebSocket peer (kind "raw") that sends frames of its own making.
Peers == {1, 2}

\* ------------------------------------------------------- program constants
maxReconnectAttempts == 5
baseDelay == 1000
gravityOn == 9810000
worldWidth == 800000000
worldHeight == 600000000

defaultGravity == [x |-> 0, y |-> gravityOn]
defaultBounds == [width |-> worldWidth, height |-> worldHeight]

\* The two demo objects that setupCanvas adds.
ball1 ==
  [id |-> "ball1", x |-> 100000000, y |-> 100000000, vx |-> 2000000, vy |-> 0,
   mass |-> 1000000, type |-> "circle", radius |-> 20000000]
ball2 ==
  [id |-> "ball2", x |-> 200000000, y |-> 150000000, vx |-> -1000000, vy |-> 0,
   mass |-> 1500000, type |-> "circle", radius |-> 25000000]

\* Objects addRandomBall can produce (two draws of its random fields that
\* share an id, i.e. two calls within the same millisecond of Date.now()).
RandomBalls ==
  { [id |-> "b1", x |-> 100000000, y |-> 60000000, vx |-> -1000000, vy |-> 0,
     mass |-> 1000000, type |-> "circle", radius |-> r] : r \in {20000000, 30000000} }

\* The object of the add_object scenario, sent by a peer that is not one of
\* the repository's clients.
scenarioBall ==
  [id |-> "b1", x |-> 10000000, y |-> 10000000, vx |-> 0, vy |-> 0,
   mass |-> 1000000, type |-> "circle", radius |-> 5000000]

\* --------------------------------------------------------------- messages
NoData ==
  [action |-> {}, object |-> {}, gravity |-> {}, id |-> {},
   worldBounds |-> {}, timestamp |-> {}]

Msg(t, d, ts) == [ok |-> TRUE, type |-> t, data |-> d, timestamp |-> ts]

\* A text frame that is not valid JSON.
malformedFrame == [ok |-> FALSE, type |-> "", data |-> {}, timestamp |-> {}]

clientReadyMsg == Msg("client_ready", {}, {})

addObjectData(o) == [NoData EXCEPT !.action = {"add_object"}, !.object = {o}]
gravityData(a, g) == [NoData EXCEPT !.action = {a}, !.gravity = {g}]
removeData(k) == [NoData EXCEPT !.action = {"remove_object"}, !.id = {k}]
resetData == [NoData EXCEPT !.action = {"reset"}]
testData(t) == [NoData EXCEPT !.action = {"test"}, !.timestamp = {t}]

physicsInitData ==
  [NoData EXCEPT !.gravity = {defaultGravity}, !.worldBounds = {defaultBounds}]

ClientTimes == {7}
ServerTimes == {1000, 1001}

\* An object without a velocity, as a peer that is not one of the
\* repository's clients may send it.
bareBall ==
  [id |-> "b1", x |-> 10000000, y |-> 10000000,
   mass |-> 1000000, type |-> "circle", radius |-> 5000000]

\* Frames a peer that is not a PhysicsClient may put on its connection.
RawFrames ==
  { malformedFrame,
    Msg("bogus", {}, {}),
    clientReadyMsg,
    Msg("physics_update", {}, {7}),
    Msg("physics_update", {addObjectData(scenarioBall)}, {7}),
    Msg("physics_update", {addObjectData(bareBall)}, {7}),
    Msg("physics_update", {gravityData("update_gravity", [x |-> 0, y |-> 5000000])}, {7}),
    Msg("physics_update", {gravityData("gravity_changed", [x |-> 0, y |-> 0])}, {}),
    Msg("physics_update", {removeData("ball1")}, {}),
    Msg("physics_update", {resetData}, {}) }

\* JSON.stringify of a message built by the program: always a valid frame.
\* Undefined members are left out, which the optional sets already express.
Stringify(m) == [m EXCEPT !.ok = TRUE]

\* JSON.parse: throws on a frame that is not JSON (parsed = {}), otherwise
\* yields the value.
Parse(f) == IF f.ok THEN {f} ELSE {}

\* ------------------------------------------------------------------ state
VARIABLES
  pageKind,          \* which client.js the server hands out: "typed" or "plain"
  hasCanvas,         \* index.html has the canvas element and a 2d context
  kind,              \* per peer: pageKind, or "raw"
  phase,             \* per peer: "new", "running", "crashed"
  rs,                \* readyState of the peer's current socket
  isConnected,       \* typed: isConnected; plain: connected
  reconnectAttempts, \* typed client only (stays 0 elsewhere)
  timers,            \* pending reconnect timers: the sequence of their delays
  gravity,
  worldBounds,
  physicsObjects,    \* per peer: function from the ids present to objects
  c2s,               \* frames in flight from the peer to the relay
  s2c,               \* frames in flight from the relay to the peer
  linked,            \* the relay's socket belongs to the peer's current socket
  opened,            \* the peer's current socket has fired its open event
  srv,               \* readyState of the relay's socket for the peer
  clients,           \* the relay's Set `clients`, in insertion order (the
                     \* order in which a for-of loop visits it)
  sendFails,         \* peers on whose relay socket send() throws
  sentLog,           \* history: messages the peer transmitted on its socket
  consecFails,       \* history: connection attempts failed since the last open
  delays,            \* history: reconnect delays scheduled since the last open
  flaky,             \* peers whose connection may end any number of times
  budget,            \* how many other events the environment may produce
  acts,              \* history: user actions, foreign frames and animation
                     \* frames so far
  drops,             \* history, per steady peer: connection endings so far
  online,            \* history: every user action and foreign frame so far
                     \* was made while all peers were connected
  relayed,           \* history: gravity of the last gravity change the relay
                     \* handled ({} when it handled none)
  toggles,           \* history, per peer: calls of toggleGravity so far
  frames,            \* per peer: frame callbacks pending (requestAnimationFrame)
  ticks,             \* history, per peer: frame callbacks run so far
  files,             \* the static files in the server's working directory
  response           \* the last plain HTTP request and what handler made of it

cfgVars == <<pageKind, hasCanvas, kind, flaky, budget, sendFails, files>>
connVars == <<rs, opened, isConnected, reconnectAttempts, timers, consecFails, delays>>
worldVars == <<gravity, worldBounds, physicsObjects>>
srvVars == <<srv, clients>>
syncVars == <<online, relayed, toggles>>
loopVars == <<frames, ticks>>
httpVars == <<response>>
vars ==
  <<pageKind, hasCanvas, kind, phase, rs, isConnected, reconnectAttempts,
    timers, gravity, worldBounds, physicsObjects, c2s, s2c, linked, opened,
    srv, clients, sendFails, sentLog, consecFails, delays, flaky, budget,
    acts, drops, online, relayed, toggles, frames, ticks, files, response>>

\* The environment's events are user actions, frames of a foreign peer,
\* animation frames and connection endings.  The connection of a flaky peer may end any number
\* of times; all other events together number at most budget.
RECURSIVE SumDrops(_)
SumDrops(S) ==
  IF S = {} THEN 0
  ELSE LET c == CHOOSE x \in S : TRUE IN drops[c] + SumDrops(S \ {c})

Spent == acts + SumDrops(Peers \ flaky)

CanAct == Spent < budget

CanDrop(c) == c \in flaky \/ Spent < budget

\* drops after one more ending of peer c's connection.
Dropped(c) == IF c \in flaky THEN drops ELSE [drops EXCEPT ![c] = @ + 1]

\* The two files handler reads from the working directory.
StaticFiles == {"index.html", "client.js"}

\* No plain HTTP request has been made yet.
NoResponse == [path |-> {}, rejected |-> FALSE, status |-> {}, body |-> {}]

\* Field initialisers of the client classes; no request reached the relay.
Start ==
  /\ phase = [c \in Peers |-> IF kind[c] = "raw" THEN "running" ELSE "new"]
  /\ rs = [c \in Peers |-> "NONE"]
  /\ isConnected = [c \in Peers |-> FALSE]
  /\ reconnectAttempts = [c \in Peers |-> 0]
  /\ timers = [c \in Peers |-> << >>]
  /\ gravity = [c \in Peers |-> defaultGravity]
  /\ worldBounds = [c \in Peers |-> defaultBounds]
  /\ physicsObjects = [c \in Peers |-> << >>]
  /\ c2s = [c \in Peers |-> << >>]
  /\ s2c = [c \in Peers |-> << >>]
  /\ linked = [c \in Peers |-> FALSE]
  /\ opened = [c \in Peers |-> FALSE]
  /\ srv = [c \in Peers |-> "NONE"]
  /\ clients = << >>
  /\ sentLog = [c \in Peers |-> << >>]
  /\ consecFails = [c \in Peers |-> 0]
  /\ delays = [c \in Peers |-> << >>]
  /\ acts = 0
  /\ drops = [c \in Peers |-> 0]
  /\ online = TRUE
  /\ relayed = {}
  /\ toggles = [c \in Peers |-> 0]
  /\ frames = [c \in Peers |-> 0]
  /\ response = NoResponse
  /\ ticks = [c \in Peers |-> 0]

\* Any page (typed or plain script, with or without the canvas), and a
\* second peer that is a browser on the same page or a foreign peer.
Init ==
  /\ pageKind \in {"typed", "plain"}
  /\ hasCanvas \in BOOLEAN
  /\ \E k2 \in {pageKind, "raw"} : kind = [c \in Peers |-> IF c = 1 THEN pageKind ELSE k2]
  /\ flaky = {}
  /\ budget = MaxEvents
  /\ sendFails = {}
  /\ files = StaticFiles
  /\ Start

\* The typed client on a flaky connection, next to a foreign peer: the
\* typed client can run through its whole reconnect schedule, time and
\* again.
InitRetry ==
  /\ pageKind = "typed"
  /\ hasCanvas = TRUE
  /\ kind = [c \in Peers |-> IF c = 1 THEN "typed" ELSE "raw"]
  /\ flaky = {1}
  /\ budget = MaxEvents
  /\ sendFails = {}
  /\ files = StaticFiles
  /\ Start

\* --------------------------------------------------- gravity changes
\* The gravity a frame announces: that of a physics_update whose action is
\* update_gravity or gravity_changed ({} for any other frame).
GravityOf(f) ==
  IF f.ok /\ f.type = "physics_update"
    THEN UNION { d.gravity : d \in { e \in f.data :
                   e.action \in {{"update_gravity"}, {"gravity_changed"}} } }
    ELSE {}

\* The elements of a Set kept in insertion order.
Members(cl) == {cl[i] : i \in DOMAIN cl}

\* Set.add and Set.delete on a Set kept in insertion order.
SetAdd(cl, c) == IF c \in Members(cl) THEN cl ELSE Append(cl, c)

SetDelete(cl, c) == SelectSeq(cl, LAMBDA x : x # c)

\* Every peer has an open connection that the relay has registered.
AllConnected ==
  \A c \in Peers : rs[c] = "OPEN" /\ srv[c] = "OPEN" /\ c \in Members(clients)

\* The plain-script client on a page with its canvas, next to a foreign
\* peer, with room for one event more: a store that a local action has
\* changed can meet a frame that only a foreign peer sends.
InitPlain ==
  /\ pageKind = "plain"
  /\ hasCanvas = TRUE
  /\ kind = [c \in Peers |-> IF c = 1 THEN "plain" ELSE "raw"]
  /\ flaky = {}
  /\ budget = MaxEvents + 1
  /\ sendFails = {}
  /\ files = StaticFiles
  /\ Start

\* ------------------------------------------------------------ the store
\* Map.set(obj.id, obj)
StoreSet(s, o) == [k \in DOMAIN s \cup {o.id} |-> IF k = o.id THEN o ELSE s[k]]

\* Map.delete(id)
StoreDelete(s, k) == [j \in DOMAIN s \ {k} |-> s[j]]

\* setupCanvas: adds the two demo objects when the canvas and its context
\* exist, and nothing otherwise.
setupCanvas(s) == IF hasCanvas THEN StoreSet(StoreSet(s, ball1), ball2) ELSE s

\* this.physicsObjects.clear(); this.setupCanvas(); on store s.
resetStore(s) == setupCanvas(<< >>)

\* ------------------------------------------------- the client: sending
\* WebSocket.send by readyState: transmits when OPEN, throws when
\* CONNECTING, silently discards when CLOSING or CLOSED.
socketSend(state) ==
  CASE state = "OPEN" -> "sent"
    [] state = "CONNECTING" -> "threw"
    [] OTHER -> "discarded"

\* A sendMessage that hands every message to the socket.
sendMessageUnguarded(k, state, conn) == "sent"

\* sendMessage(message) of either client, called with the socket's
\* readyState and the connected flag as they are at the call.
\* typed: if (this.socket && this.isConnected) send, else warn.
\* plain: if (this.ws && this.ws.readyState === WebSocket.OPEN) send.
sendMessage(k, state, conn) ==
  IF k = "typed"
    THEN IF state # "NONE" /\ conn THEN socketSend(state) ELSE "dropped"
    ELSE IF state # "NONE" /\ state = "OPEN" THEN "sent" ELSE "dropped"

\* The wire and the log of transmissions after a call with result res.
c2sAfter(c, m, res) ==
  [c2s EXCEPT ![c] = IF res = "sent" THEN Append(@, Stringify(m)) ELSE @]

sentLogAfter(c, m, res) ==
  [sentLog EXCEPT ![c] = IF res = "sent" THEN Append(@, m.type) ELSE @]

\* Room on the wire for what a call would transmit.
Room(c, res) == res = "sent" => Len(c2s[c]) < MaxQueue

\* ------------------------------------------- the client: (re)connecting
\* A guard that lets one attempt too many through.
canReconnectInclusive(ra) == ra <= maxReconnectAttempts

\* attemptReconnect: the guard.
canReconnect(ra) == ra < maxReconnectAttempts

\* A delay that doubles with every attempt.
reconnectDelayDoubling(ra) == baseDelay * 2 ^ (ra - 1)

\* attemptReconnect: the delay handed to setTimeout, read after the
\* increment of reconnectAttempts.
reconnectDelay(ra) == baseDelay * ra

\* attemptReconnect on attempts ra and pending timers ts.
attemptReconnect(ra, ts) ==
  IF canReconnect(ra)
    THEN [ra |-> ra + 1, timers |-> Append(ts, reconnectDelay(ra + 1))]
    ELSE [ra |-> ra, timers |-> ts]

\* An onopen that forgets to reset the counter.
onopenAttemptsKept(ra) == ra

\* reconnectAttempts as onopen leaves it.
onopenAttempts(ra) == 0

\* connect() of the typed client for peer c with pending timers ts;
\* throws says that the WebSocket constructor threw.
connect(c, ts, throws) ==
  IF throws
    THEN LET r == attemptReconnect(reconnectAttempts[c], ts) IN
         /\ reconnectAttempts' = [reconnectAttempts EXCEPT ![c] = r.ra]
         /\ timers' = [timers EXCEPT ![c] = r.timers]
         /\ delays' = [delays EXCEPT ![c] =
                         IF r.timers # ts THEN Append(@, r.timers[Len(r.timers)]) ELSE @]
         /\ consecFails' = [consecFails EXCEPT ![c] = @ + 1]
         /\ UNCHANGED <<rs, c2s, linked, opened, sentLog>>
    ELSE /\ rs' = [rs EXCEPT ![c] = "CONNECTING"]
         /\ c2s' = [c2s EXCEPT ![c] = << >>]
         /\ linked' = [linked EXCEPT ![c] = FALSE]
         /\ opened' = [opened EXCEPT ![c] = FALSE]
         /\ sentLog' = [sentLog EXCEPT ![c] = << >>]
         /\ timers' = [timers EXCEPT ![c] = ts]
         /\ UNCHANGED <<reconnectAttempts, delays, consecFails>>

\* new PhysicsClient() on DOMContentLoaded, in the page and with the script
\* that the server handed out.  startPhysicsSimulation runs
\* animate once (with a delta of 0, on the demo objects, which it leaves as
\* they are), and animate requests the first frame callback.
\* typed init: setupCanvas, connect, startPhysicsSimulation.
\* plain init: setupWebSocket (no try/catch: a throwing constructor ends
\* init), setupCanvas, startPhysicsSimulation.
Construct(c) ==
  /\ phase[c] = "new" /\ StaticFiles \subseteq files
  /\ \E throws \in BOOLEAN :
       /\ throws => CanDrop(c)
       /\ drops' = IF throws THEN Dropped(c) ELSE drops
       /\ IF kind[c] = "typed"
            THEN /\ connect(c, timers[c], throws)
                 /\ phase' = [phase EXCEPT ![c] = "running"]
                 /\ physicsObjects' = [physicsObjects EXCEPT ![c] = setupCanvas(@)]
            ELSE IF throws
              THEN /\ phase' = [phase EXCEPT ![c] = "crashed"]
                   /\ UNCHANGED <<rs, c2s, linked, opened, sentLog, timers,
                                  reconnectAttempts, delays, consecFails,
                                  physicsObjects>>
              ELSE /\ connect(c, timers[c], FALSE)
                   /\ phase' = [phase EXCEPT ![c] = "running"]
                   /\ physicsObjects' = [physicsObjects EXCEPT ![c] = setupCanvas(@)]
  /\ frames' = [frames EXCEPT ![c] = IF phase'[c] = "running" THEN 1 ELSE 0]
  /\ UNCHANGED <<cfgVars, httpVars, ticks, syncVars, isConnected, gravity, worldBounds, s2c,
                 srvVars, acts>>

\* A timer that stays armed after it fired (setInterval).
timersAfterFireKept(ts, i) == ts

\* setTimeout: the timer that fired is no longer pending.
timersAfterFire(ts, i) ==
  [j \in 1..(Len(ts) - 1) |-> IF j < i THEN ts[j] ELSE ts[j + 1]]

\* The reconnect timer fires: setTimeout(() => this.connect(), ...).
TimerFire(c) ==
  /\ \E i \in 1..Len(timers[c]), throws \in BOOLEAN :
       /\ throws => CanDrop(c)
       /\ drops' = IF throws THEN Dropped(c) ELSE drops
       /\ connect(c, timersAfterFire(timers[c], i), throws)
  /\ UNCHANGED <<cfgVars, httpVars, loopVars, syncVars, phase, isConnected, worldVars, s2c, srvVars, acts>>

\* The open event of the peer's socket; the relay has answered the upgrade.
\* typed onopen: isConnected = true; reconnectAttempts = 0; client_ready.
\* plain onopen: connected = true; client_ready.
ClientOpen(c) ==
  /\ rs[c] = "CONNECTING" /\ linked[c] /\ srv[c] \in {"OPEN", "CLOSED"}
  /\ rs' = [rs EXCEPT ![c] = "OPEN"]
  /\ opened' = [opened EXCEPT ![c] = TRUE]
  /\ consecFails' = [consecFails EXCEPT ![c] = 0]
  /\ delays' = [delays EXCEPT ![c] = << >>]
  /\ IF kind[c] = "raw"
       THEN UNCHANGED <<isConnected, reconnectAttempts, c2s, sentLog>>
       ELSE LET res == sendMessage(kind[c], "OPEN", TRUE) IN
            /\ isConnected' = [isConnected EXCEPT ![c] = TRUE]
            /\ reconnectAttempts' =
                 [reconnectAttempts EXCEPT ![c] =
                    IF kind[c] = "typed" THEN onopenAttempts(@) ELSE @]
            /\ c2s' = c2sAfter(c, clientReadyMsg, res)
            /\ sentLog' = sentLogAfter(c, clientReadyMsg, res)
  /\ UNCHANGED <<cfgVars, httpVars, loopVars, syncVars, phase, timers, worldVars, s2c, linked, srvVars,
                 acts, drops>>

\* The socket ends.  failed: the error event fires before the close event.
\* typed onerror: isConnected = false.
\* typed onclose: isConnected = false; attemptReconnect().
\* plain onerror and onclose: connected = false.
ClientEnd(c, failed) ==
  /\ rs[c] \in (IF failed THEN {"CONNECTING", "OPEN", "CLOSING"} ELSE {"OPEN", "CLOSING"})
  /\ CanDrop(c)
  /\ drops' = Dropped(c)
  /\ rs' = [rs EXCEPT ![c] = "CLOSED"]
  /\ consecFails' = [consecFails EXCEPT ![c] = IF opened[c] THEN @ ELSE @ + 1]
  /\ isConnected' = [isConnected EXCEPT ![c] = FALSE]
  /\ IF kind[c] = "typed"
       THEN LET r == attemptReconnect(reconnectAttempts[c], timers[c]) IN
            /\ reconnectAttempts' = [reconnectAttempts EXCEPT ![c] = r.ra]
            /\ timers' = [timers EXCEPT ![c] = r.timers]
            /\ delays' = [delays EXCEPT ![c] =
                            IF r.timers # timers[c]
                              THEN Append(@, r.timers[Len(r.timers)]) ELSE @]
       ELSE UNCHANGED <<reconnectAttempts, timers, delays>>
  /\ s2c' = [s2c EXCEPT ![c] = << >>]
  /\ UNCHANGED <<cfgVars, httpVars, loopVars, syncVars, phase, opened, worldVars, c2s, linked, sentLog,
                 srvVars, acts>>

\* disconnect() of the typed client: if (this.socket) this.socket.close().
Disconnect(c) ==
  /\ kind[c] = "typed" /\ phase[c] = "running"
  /\ rs[c] \in {"CONNECTING", "OPEN"}
  /\ CanDrop(c)
  /\ rs' = [rs EXCEPT ![c] = "CLOSING"]
  /\ UNCHANGED <<cfgVars, httpVars, loopVars, syncVars, phase, opened, isConnected, reconnectAttempts, timers,
                 consecFails, delays, worldVars, c2s, s2c, linked, sentLog,
                 srvVars, acts, drops>>

\* ------------------------------------------- the client: inbound messages
\* handlePhysicsUpdate(data) of the typed client on gravity g and store s.
handlePhysicsUpdate(d, g, s) ==
  IF d.action = {"add_object"} /\ d.object # {}
    THEN [gravity |-> g, objects |-> StoreSet(s, CHOOSE o \in d.object : TRUE)]
  ELSE IF d.action = {"remove_object"} /\ d.id # {}
    THEN [gravity |-> g, objects |-> StoreDelete(s, CHOOSE k \in d.id : TRUE)]
  ELSE IF d.action = {"update_gravity"} /\ d.gravity # {}
    THEN [gravity |-> CHOOSE v \in d.gravity : TRUE, objects |-> s]
  ELSE IF d.action = {"reset"}
    THEN [gravity |-> g, objects |-> resetStore(s)]
  ELSE [gravity |-> g, objects |-> s]

\* initializePhysics(state) of the typed client: logs and refreshes the
\* display; gravity, bounds and store are not assigned.
initializePhysics(d, g, b, s) == [gravity |-> g, bounds |-> b, objects |-> s]

\* A handler whose exceptions escape it.
onmessageRethrow(g, b, s) ==
  [gravity |-> g, bounds |-> b, objects |-> s, res |-> "raised"]

\* The catch block of onmessage (either client): the error is logged and
\* the handler returns; nothing was assigned before the throw.
onmessageCatch(g, b, s) ==
  [gravity |-> g, bounds |-> b, objects |-> s, res |-> "caught"]

\* onmessage of the typed client: JSON.parse, handleMessage, all inside
\* try/catch.  res is "ok", or "caught" when something threw.
typedOnMessage(f, g, b, s) ==
  IF Parse(f) = {}
    THEN onmessageCatch(g, b, s)
  ELSE LET m == CHOOSE x \in Parse(f) : TRUE IN
    IF m.type = "physics_init"
      THEN LET w == initializePhysics(m.data, g, b, s) IN
           [gravity |-> w.gravity, bounds |-> w.bounds, objects |-> w.objects,
            res |-> "ok"]
    ELSE IF m.type = "physics_update"
      THEN IF m.data = {}
             THEN onmessageCatch(g, b, s)
             ELSE LET w == handlePhysicsUpdate(CHOOSE d \in m.data : TRUE, g, s) IN
                  [gravity |-> w.gravity, bounds |-> b, objects |-> w.objects,
                   res |-> "ok"]
    ELSE [gravity |-> g, bounds |-> b, objects |-> s, res |-> "ok"]

\* onmessage of the plain client: JSON.parse, then handlePhysicsUpdate,
\* which only refreshes the display for a physics_update.
plainOnMessage(f, g, b, s) ==
  IF Parse(f) = {}
    THEN onmessageCatch(g, b, s)
    ELSE [gravity |-> g, bounds |-> b, objects |-> s, res |-> "ok"]

\* onmessage of a browser of kind k.
onmessage(k, f, g, b, s) ==
  IF k = "typed" THEN typedOnMessage(f, g, b, s) ELSE plainOnMessage(f, g, b, s)

\* A message event on the peer's socket.
ClientMessage(c) ==
  /\ rs[c] = "OPEN" /\ s2c[c] # << >>
  /\ LET f == Head(s2c[c])
         w == onmessage(kind[c], f, gravity[c], worldBounds[c], physicsObjects[c])
     IN /\ s2c' = [s2c EXCEPT ![c] = Tail(@)]
        /\ IF kind[c] = "raw"
             THEN UNCHANGED worldVars
             ELSE /\ gravity' = [gravity EXCEPT ![c] = w.gravity]
                  /\ worldBounds' = [worldBounds EXCEPT ![c] = w.bounds]
                  /\ physicsObjects' = [physicsObjects EXCEPT ![c] = w.objects]
  /\ UNCHANGED <<cfgVars, httpVars, loopVars, syncVars, phase, connVars, c2s, linked, sentLog, srvVars,
                 acts, drops>>

\* ------------------------------------------------ the client: user actions
\* A toggle that only ever switches gravity off.
toggledOff(g) == [g EXCEPT !.y = 0]

\* The gravity a toggle leaves: a flip between 0 and 9.81.
toggled(g) == [g EXCEPT !.y = IF g.y = 0 THEN gravityOn ELSE 0]

\* The message toggleGravity passes to sendMessage: gravity_changed in the
\* plain client, none in the typed client.
toggleMessage(k, g) ==
  IF k = "plain"
    THEN {Msg("physics_update", {gravityData("gravity_changed", g)}, {})}
    ELSE {}

\* A call that passes the messages ms (none or one) to sendMessage.
Emit(c, ms) ==
  IF ms = {}
    THEN UNCHANGED <<c2s, sentLog>>
    ELSE LET m == CHOOSE x \in ms : TRUE
             res == sendMessage(kind[c], rs[c], isConnected[c])
         IN /\ Room(c, res)
            /\ c2s' = c2sAfter(c, m, res)
            /\ sentLog' = sentLogAfter(c, m, res)

UserCan(c) == kind[c] # "raw" /\ phase[c] = "running" /\ CanAct

toggleGravity(c) ==
  /\ UserCan(c)
  /\ acts' = acts + 1
  /\ gravity' = [gravity EXCEPT ![c] = toggled(@)]
  /\ toggles' = [toggles EXCEPT ![c] = @ + 1]
  /\ Emit(c, toggleMessage(kind[c], gravity'[c]))
  /\ online' = (online /\ AllConnected)
  /\ UNCHANGED <<cfgVars, httpVars, loopVars, relayed, phase, connVars, worldBounds, physicsObjects, s2c,
                 linked, srvVars, drops>>

addRandomBall(c) ==
  /\ UserCan(c)
  /\ acts' = acts + 1
  /\ online' = (online /\ AllConnected)
  /\ \E o \in RandomBalls :
       /\ physicsObjects' = [physicsObjects EXCEPT ![c] = StoreSet(@, o)]
       /\ Emit(c, {Msg("physics_update", {addObjectData(o)}, {})})
  /\ UNCHANGED <<cfgVars, httpVars, loopVars, relayed, toggles, phase, connVars, gravity, worldBounds, s2c, linked,
                 srvVars, drops>>

resetSimulation(c) ==
  /\ UserCan(c)
  /\ acts' = acts + 1
  /\ online' = (online /\ AllConnected)
  /\ physicsObjects' = [physicsObjects EXCEPT ![c] = resetStore(@)]
  /\ Emit(c, {})
  /\ UNCHANGED <<cfgVars, httpVars, loopVars, relayed, toggles, phase, connVars, gravity, worldBounds, s2c, linked,
                 srvVars, drops>>

\* The click handler of the typed page's test button.
testButton(c) ==
  /\ UserCan(c) /\ kind[c] = "typed"
  /\ acts' = acts + 1
  /\ online' = (online /\ AllConnected)
  /\ \E t \in ClientTimes :
       Emit(c, {Msg("physics_update", {testData(t)}, {})})
  /\ UNCHANGED <<cfgVars, httpVars, loopVars, relayed, toggles, phase, connVars, worldVars, s2c, linked, srvVars, drops>>

\* ------------------------------------------------------- a foreign peer
RawConnect(c) ==
  /\ kind[c] = "raw" /\ rs[c] \in {"NONE", "CLOSED"}
  /\ CanDrop(c)
  /\ connect(c, timers[c], FALSE)
  /\ UNCHANGED <<cfgVars, httpVars, loopVars, syncVars, phase, isConnected, worldVars, s2c, srvVars, acts, drops>>

RawSend(c) ==
  /\ kind[c] = "raw" /\ rs[c] = "OPEN" /\ CanAct
  /\ Len(c2s[c]) < MaxQueue
  /\ acts' = acts + 1
  /\ online' = (online /\ AllConnected)
  /\ \E f \in RawFrames :
       /\ c2s' = [c2s EXCEPT ![c] = Append(@, f)]
       /\ sentLog' = [sentLog EXCEPT ![c] = Append(@, f.type)]
  /\ UNCHANGED <<cfgVars, httpVars, loopVars, relayed, toggles, phase, connVars, worldVars, s2c, linked, srvVars, drops>>

RawClose(c) ==
  /\ kind[c] = "raw" /\ rs[c] \in {"CONNECTING", "OPEN"}
  /\ CanDrop(c)
  /\ rs' = [rs EXCEPT ![c] = "CLOSING"]
  /\ UNCHANGED <<cfgVars, httpVars, loopVars, syncVars, phase, opened, isConnected, reconnectAttempts, timers,
                 consecFails, delays, worldVars, c2s, s2c, linked, sentLog,
                 srvVars, acts, drops>>

\* ---------------------------------------------------------------- the relay
\* A relay that forwards the sender's timestamp instead of its own.
relayUpdateKeepTs(m, now) == Msg("physics_update", m.data, m.timestamp)

\* The message the relay broadcasts for a physics_update m at time now:
\* { type: "physics_update", data: data.data, timestamp: Date.now() }.
relayUpdate(m, now) == Msg("physics_update", m.data, {now})

\* A reply that carries the gravity of the last gravity change relayed.
physicsInitMsgRelayed ==
  Msg("physics_init",
      {[physicsInitData EXCEPT
          !.gravity = IF relayed = {} THEN {defaultGravity} ELSE relayed]}, {})

\* The reply to client_ready.
physicsInitMsg == Msg("physics_init", {physicsInitData}, {})

\* broadcastToAll(message) on the outbound queues q: one send to every
\* member of `clients` whose readyState is OPEN.
\* The loop visits `clients` in insertion order; a send that throws ends
\* the loop, so the members after it are not reached.
broadcastToAll(q, m) ==
  LET open == {i \in DOMAIN clients : srv[clients[i]] = "OPEN"}
      thrown == {i \in open : clients[i] \in sendFails}
      reached == {i \in open : \A k \in thrown : i < k}
  IN [d \in Peers |->
        IF \E i \in reached : clients[i] = d
          THEN Append(q[d], Stringify(m)) ELSE q[d]]

\* A relay that broadcasts the reply to client_ready.
replyInitToAll(q, c) == broadcastToAll(q, physicsInitMsg)

\* socket.send(JSON.stringify(physics_init)) on the requester's socket.
replyInit(q, c) ==
  IF c \in sendFails THEN q
  ELSE [q EXCEPT ![c] = Append(@, Stringify(physicsInitMsg))]

\* A relay that answers what it cannot handle with an error message.
relayDiscardReplying(q, c) ==
  [q EXCEPT ![c] = Append(@, Stringify(Msg("error", {}, {})))]

\* The default branch of the switch and the catch block: a log line, and
\* the outbound queues q are as they were.
relayDiscard(q, c) == q

\* Room on every queue that the operators above would append to.
RelayRoom(q, q2) == \A d \in Peers : q2[d] # q[d] => Len(q[d]) < MaxQueue

\* handleWebSocket(req) for an upgrade request of peer c:
\* Deno.upgradeWebSocket, clients.add(socket).
handleWebSocket(c) ==
  /\ rs[c] = "CONNECTING" /\ ~linked[c] /\ srv[c] \in {"NONE", "CLOSED"}
  /\ srv' = [srv EXCEPT ![c] = "CONNECTING"]
  /\ clients' = SetAdd(clients, c)
  /\ linked' = [linked EXCEPT ![c] = TRUE]
  /\ s2c' = [s2c EXCEPT ![c] = << >>]
  /\ UNCHANGED <<cfgVars, httpVars, loopVars, syncVars, phase, connVars, worldVars, c2s, sentLog, acts, drops>>

\* The upgrade response is written: the relay's socket becomes OPEN.
ServerOpen(c) ==
  /\ srv[c] = "CONNECTING"
  /\ srv' = [srv EXCEPT ![c] = "OPEN"]
  /\ UNCHANGED <<cfgVars, httpVars, loopVars, syncVars, phase, connVars, worldVars, c2s, s2c, linked, sentLog,
                 clients, acts, drops>>

\* socket.onmessage of the relay for the next frame of peer c.
ServerMessage(c) ==
  /\ srv[c] = "OPEN" /\ c2s[c] # << >>
  /\ c2s' = [c2s EXCEPT ![c] = Tail(@)]
  /\ relayed' = IF GravityOf(Head(c2s[c])) # {} THEN GravityOf(Head(c2s[c])) ELSE relayed
  /\ LET f == Head(c2s[c]) IN
     IF Parse(f) = {}
       THEN s2c' = relayDiscard(s2c, c)
     ELSE LET m == CHOOSE x \in Parse(f) : TRUE IN
       IF m.type = "physics_update"
         THEN \E now \in ServerTimes :
                /\ RelayRoom(s2c, broadcastToAll(s2c, relayUpdate(m, now)))
                /\ s2c' = broadcastToAll(s2c, relayUpdate(m, now))
       ELSE IF m.type = "client_ready"
         THEN /\ RelayRoom(s2c, replyInit(s2c, c))
              /\ s2c' = replyInit(s2c, c)
       ELSE s2c' = relayDiscard(s2c, c)
  /\ UNCHANGED <<cfgVars, httpVars, loopVars, online, toggles, phase, connVars, worldVars, linked,
                 sentLog, srvVars, acts, drops>>

\* A relay that leaves an ended socket in `clients`.
clientsAfterEndKept(cl, c) == cl

\* clients.delete(socket) of onclose and onerror.
clientsAfterEnd(cl, c) == SetDelete(cl, c)

\* The relay's socket for peer c ends.  failed: onerror runs before onclose.
\* onclose: clients.delete(socket).  onerror: clients.delete(socket).
ServerEnd(c, failed) ==
  /\ srv[c] \in {"CONNECTING", "OPEN"}
  /\ srv' = [srv EXCEPT ![c] = "CLOSED"]
  /\ clients' = clientsAfterEnd(clients, c)
  /\ c2s' = [c2s EXCEPT ![c] = << >>]
  /\ UNCHANGED <<cfgVars, httpVars, loopVars, syncVars, phase, connVars, worldVars, s2c, linked, sentLog,
                 acts, drops>>

\* ------------------------------------------------------- the HTTP handler
\* Paths of plain requests (without an upgrade header): the page, the
\* script, the WebSocket endpoint, and two paths the server does not know.
\* A request for /ws with the upgrade header is handleWebSocket(c) above.
Paths == {"/", "/client.js", "/ws", "/favicon.ico", "/index.html"}

\* new Response(body, {status}) returned by the handler.
Response(st, b) == [rejected |-> FALSE, status |-> {st}, body |-> {b}]

\* await Deno.readTextFile outside a try block, file absent: the promise
\* that handler returned is rejected, handler has produced no Response.
Rejected == [rejected |-> TRUE, status |-> {}, body |-> {}]

\* handler(req) for a request without upgrade header, by its path, with the
\* files fs in the working directory.  A file's text stands for itself.
handler(path, fs) ==
  IF path = "/ws"
    THEN Response(400, "Expected websocket")
  ELSE IF path = "/"
    THEN IF "index.html" \in fs THEN Response(200, "index.html") ELSE Rejected
  ELSE IF path = "/client.js"
    THEN IF "client.js" \in fs
           THEN Response(200, "client.js")
           ELSE Response(404, "File not found")
  ELSE Response(404, "Not found")

\* Some HTTP client makes a plain request.
HttpRequest ==
  /\ CanAct
  /\ acts' = acts + 1
  /\ \E path \in Paths :
       response' = [path |-> {path}] @@ handler(path, files)
  /\ UNCHANGED <<cfgVars, loopVars, syncVars, phase, connVars, worldVars, c2s, s2c,
                 linked, sentLog, srvVars, drops>>

\* ------------------------------------------------------------ specification
\* ------------------------------------------------ the client: physics
\* Time between two animation frames, in milliseconds: none (two frames
\* with the same timestamp), a quarter of a second, half a second.
DeltaTimes == {0, 250, 500}

\* Objects that can enter a store from outside (a peer's add_object in the
\* typed client, addPhysicsObject on window.physicsClient in the plain
\* one): circles flush against the left, right, bottom and top boundary
\* and in the top left corner, moving outwards; a circle wider and higher
\* than the world; a circle that starts outside the world; a circle of
\* radius 0 about to pass the left boundary; a box about to pass it.
PhysicsInputs ==
  { [id |-> "obj", x |-> 20000000, y |-> 300000000, vx |-> -2000000,
     vy |-> 0, mass |-> 1000000, type |-> "circle", radius |-> 20000000],
    [id |-> "obj", x |-> 780000000, y |-> 300000000, vx |-> 2000000,
     vy |-> 0, mass |-> 1000000, type |-> "circle", radius |-> 20000000],
    [id |-> "obj", x |-> 400000000, y |-> 580000000, vx |-> 0,
     vy |-> 1000000, mass |-> 1000000, type |-> "circle", radius |-> 20000000],
    [id |-> "obj", x |-> 400000000, y |-> 20000000, vx |-> 0,
     vy |-> -1000000, mass |-> 1000000, type |-> "circle", radius |-> 20000000],
    [id |-> "obj", x |-> 20000000, y |-> 20000000, vx |-> -2000000,
     vy |-> -4000000, mass |-> 1000000, type |-> "circle", radius |-> 20000000],
    [id |-> "obj", x |-> 400000000, y |-> 300000000, vx |-> 1000000,
     vy |-> 1000000, mass |-> 1000000, type |-> "circle", radius |-> 450000000],
    [id |-> "obj", x |-> -50000000, y |-> 700000000, vx |-> -1000000,
     vy |-> 3000000, mass |-> 1000000, type |-> "circle", radius |-> 20000000],
    [id |-> "obj", x |-> 1000000, y |-> 300000000, vx |-> -2000000,
     vy |-> 0, mass |-> 1000000, type |-> "circle", radius |-> 0],
    [id |-> "obj", x |-> 1000000, y |-> 300000000, vx |-> -2000000,
     vy |-> 0, mass |-> 1000000, type |-> "box", radius |-> 20000000] }

\* obj.velocity.y += this.gravity.y * deltaTime; obj.x += obj.velocity.x *
\* deltaTime * 60; obj.y += obj.velocity.y * deltaTime * 60, with
\* deltaTime = dt / 1000.
integrate(o, g, dt) ==
  LET vy1 == o.vy + (g.y \div 1000) * dt IN
  [o EXCEPT !.vy = vy1,
            !.x = o.x + o.vx * ((dt * 60) \div 1000),
            !.y = o.y + vy1 * ((dt * 60) \div 1000)]

\* A bounce that loses no energy.
bounceElastic(v) == 0 - v

\* -velocity * 0.8
bounce(v) == ((0 - v) * 4) \div 5

\* A response that reflects the velocity and leaves the position.
respondUnclamped(o, axis, vel, hit, pos) ==
  IF hit THEN [o EXCEPT ![vel] = bounce(@)] ELSE o

\* One `if` of the collision code: when the test hit holds, the coordinate
\* axis becomes pos and the velocity component vel is reflected.
respond(o, axis, vel, hit, pos) ==
  IF hit THEN [o EXCEPT ![axis] = pos, ![vel] = bounce(@)] ELSE o

\* if (obj.type === 'circle' && obj.radius)
collides(o) == o.type = "circle" /\ o.radius # 0

\* The four tests of the collision code, in the order of the code, each on
\* the object as the tests before it left it: the object before the first
\* test and after each of the four.
collideStages(o, b) ==
  LET o1 == respond(o, "x", "vx", o.x - o.radius < 0, o.radius)
      o2 == respond(o1, "x", "vx", o1.x + o1.radius > b.width,
                    b.width - o1.radius)
      o3 == respond(o2, "y", "vy", o2.y + o2.radius > b.height,
                    b.height - o2.radius)
      o4 == respond(o3, "y", "vy", o3.y - o3.radius < 0, o3.radius)
  IN <<o, o1, o2, o3, o4>>

\* A collision response that tests the left and right boundaries only.
collideHorizontal(o, b) == IF collides(o) THEN collideStages(o, b)[3] ELSE o

collide(o, b) == IF collides(o) THEN collideStages(o, b)[5] ELSE o

\* The body of updatePhysics' forEach for one object.
updateObject(o, g, b, dt) == collide(integrate(o, g, dt), b)

\* An update that drops the objects that have left the world to the left.
updatePhysicsCulling(s, g, b, dt) ==
  LET n == [k \in DOMAIN s |-> updateObject(s[k], g, b, dt)]
  IN [k \in {j \in DOMAIN s : n[j].x >= 0} |-> n[k]]

\* updatePhysics(deltaTime) on store s.
updatePhysics(s, g, b, dt) ==
  [k \in DOMAIN s |-> updateObject(s[k], g, b, dt)]

\* The numbers of the model are the numbers of the program: no division
\* in integrate or bounce leaves a remainder in an animation frame that
\* can be taken.
ExactArithmetic ==
  \A c \in Peers : \A dt \in DeltaTimes :
    UserCan(c) => \A k \in DOMAIN physicsObjects[c] :
      LET st == collideStages(integrate(physicsObjects[c][k], gravity[c], dt),
                              worldBounds[c])
      IN /\ gravity[c].y % 1000 = 0 /\ (dt * 60) % 1000 = 0
         /\ collides(st[1]) =>
              /\ \A i \in {1, 2} : st[i + 1] # st[i] => (st[i].vx * 4) % 5 = 0
              /\ \A i \in {3, 4} : st[i + 1] # st[i] => (st[i].vy * 4) % 5 = 0

\* obj.velocity is undefined: obj.velocity.y throws a TypeError.
throwsOn(o) == "vx" \notin DOMAIN o

\* The frame callbacks pending after one of n has run: animate requests
\* the next one in its last statement, which an exception thrown by
\* updatePhysics does not reach.
framesAfter(n, threw) == IF threw THEN n - 1 ELSE n

\* A frame callback runs: animate(currentTime) with currentTime - lastTime
\* = dt.  forEach visits the objects in insertion order, which the store
\* of the model does not keep: when an object throws, the objects
\* integrated before it are any of the others.
animate(c) ==
  /\ UserCan(c) /\ frames[c] > 0
  /\ acts' = acts + 1
  /\ ticks' = [ticks EXCEPT ![c] = @ + 1]
  /\ LET s == physicsObjects[c]
         bad == {k \in DOMAIN s : throwsOn(s[k])}
     IN /\ frames' = [frames EXCEPT ![c] = framesAfter(@, bad # {})]
        /\ \E dt \in DeltaTimes :
             IF bad = {}
               THEN physicsObjects' =
                      [physicsObjects EXCEPT ![c] =
                         updatePhysics(s, gravity[c], worldBounds[c], dt)]
               ELSE \E done \in SUBSET (DOMAIN s \ bad) :
                      physicsObjects' =
                        [physicsObjects EXCEPT ![c] =
                           [k \in DOMAIN s |->
                              IF k \in done
                                THEN updateObject(s[k], gravity[c], worldBounds[c], dt)
                                ELSE s[k]]]
  /\ UNCHANGED <<cfgVars, httpVars, syncVars, phase, connVars, gravity, worldBounds, c2s, s2c,
                 linked, sentLog, srvVars, drops>>

\* addPhysicsObject(obj) with an object from outside; nothing is sent.
addPhysicsObject(c) ==
  /\ UserCan(c)
  /\ acts' = acts + 1
  /\ \E o \in PhysicsInputs :
       physicsObjects' = [physicsObjects EXCEPT ![c] = StoreSet(@, o)]
  /\ UNCHANGED <<cfgVars, httpVars, loopVars, syncVars, phase, connVars, gravity, worldBounds, c2s, s2c,
                 linked, sentLog, srvVars, drops>>

Next ==
  \E c \in Peers :
    \/ Construct(c)
    \/ TimerFire(c)
    \/ ClientOpen(c)
    \/ ClientEnd(c, TRUE)
    \/ ClientEnd(c, FALSE)
    \/ Disconnect(c)
    \/ ClientMessage(c)
    \/ toggleGravity(c)
    \/ addRandomBall(c)
    \/ resetSimulation(c)
    \/ testButton(c)
    \/ RawConnect(c)
    \/ RawSend(c)
    \/ RawClose(c)
    \/ handleWebSocket(c)
    \/ ServerOpen(c)
    \/ ServerMessage(c)
    \/ ServerEnd(c, TRUE)
    \/ ServerEnd(c, FALSE)

Spec == Init /\ [][Next]_vars

\* Next while the foreign peer sends no frame: it connects and closes only.
NextRetry ==
  \E c \in Peers :
    \/ Construct(c)
    \/ TimerFire(c)
    \/ ClientOpen(c)
    \/ ClientEnd(c, TRUE)
    \/ ClientEnd(c, FALSE)
    \/ Disconnect(c)
    \/ ClientMessage(c)
    \/ toggleGravity(c)
    \/ addRandomBall(c)
    \/ resetSimulation(c)
    \/ testButton(c)
    \/ RawConnect(c)
    \/ RawClose(c)
    \/ handleWebSocket(c)
    \/ ServerOpen(c)
    \/ ServerMessage(c)
    \/ ServerEnd(c, TRUE)
    \/ ServerEnd(c, FALSE)

SpecRetry == InitRetry /\ [][NextRetry]_vars

\* Next without the steps that only the typed client has (the reconnect
\* timer, disconnect() and the test button).
NextPlain ==
  \E c \in Peers :
    \/ Construct(c)
    \/ ClientOpen(c)
    \/ ClientEnd(c, TRUE)
    \/ ClientEnd(c, FALSE)
    \/ ClientMessage(c)
    \/ toggleGravity(c)
    \/ addRandomBall(c)
    \/ resetSimulation(c)
    \/ RawConnect(c)
    \/ RawSend(c)
    \/ RawClose(c)
    \/ handleWebSocket(c)
    \/ ServerOpen(c)
    \/ ServerMessage(c)
    \/ ServerEnd(c, TRUE)
    \/ ServerEnd(c, FALSE)

SpecPlain == InitPlain /\ [][NextPlain]_vars

\* One page with its simulation running and a silent second peer: the
\* browser takes animation frames, objects enter the store, and the user
\* toggles gravity.
InitPhysics ==
  /\ pageKind \in {"typed", "plain"}
  /\ hasCanvas \in BOOLEAN
  /\ kind = [c \in Peers |-> IF c = 1 THEN pageKind ELSE "raw"]
  /\ flaky = {}
  /\ budget = MaxEvents + 1
  /\ sendFails = {}
  /\ files = StaticFiles
  /\ Start

NextPhysics ==
  \E c \in Peers :
    \/ Construct(c)
    \/ animate(c)
    \/ addPhysicsObject(c)
    \/ toggleGravity(c)

SpecPhysics == InitPhysics /\ [][NextPhysics]_vars

\* The plain-script client next to a foreign peer, where send() throws
\* on the relay's socket for one of the two.
InitSendFault ==
  /\ pageKind = "plain"
  /\ hasCanvas = TRUE
  /\ kind = [c \in Peers |-> IF c = 1 THEN "plain" ELSE "raw"]
  /\ flaky = {}
  /\ budget = MaxEvents
  /\ \E f \in Peers : sendFails = {f}
  /\ files = StaticFiles
  /\ Start

SpecSendFault == InitSendFault /\ [][NextPlain]_vars

\* The typed client next to a foreign peer, with frames: every step of
\* Next and the frame callback, and room for one event more (a frame of
\* the foreign peer and an animation frame).
InitLoop ==
  /\ pageKind = "typed"
  /\ hasCanvas = TRUE
  /\ kind = [c \in Peers |-> IF c = 1 THEN "typed" ELSE "raw"]
  /\ flaky = {}
  /\ budget = MaxEvents + 1
  /\ sendFails = {}
  /\ files = StaticFiles
  /\ Start

NextLoop == Next \/ \E c \in Peers : animate(c)

SpecLoop == InitLoop /\ [][NextLoop]_vars

\* The server started in a directory that holds any of the static files;
\* the browser clients exist only when both were there to be served.
InitHttp ==
  /\ pageKind \in {"typed", "plain"}
  /\ hasCanvas = TRUE
  /\ \E k2 \in {pageKind, "raw"} : kind = [c \in Peers |-> IF c = 1 THEN pageKind ELSE k2]
  /\ flaky = {}
  /\ budget = MaxEvents
  /\ sendFails = {}
  /\ files \in SUBSET StaticFiles
  /\ Start

NextHttp == Next \/ HttpRequest

SpecHttp == InitHttp /\ [][NextHttp]_vars

TypeOK ==
  /\ \A c \in Peers :
       /\ rs[c] \in {"NONE", "CONNECTING", "OPEN", "CLOSING", "CLOSED"}
       /\ srv[c] \in {"NONE", "CONNECTING", "OPEN", "CLOSED"}
       /\ reconnectAttempts[c] \in 0..maxReconnectAttempts
       /\ Len(c2s[c]) <= MaxQueue /\ Len(s2c[c]) <= MaxQueue
  /\ Members(clients) \subseteq Peers /\ Len(clients) = Cardinality(Members(clients))

\* ------------------------------------------------------ reading a step
Browsers == {c \in Peers : kind[c] # "raw"}

\* The step is the relay's onmessage for the frame at the head of c2s[a].
RelayHandles(a) ==
  /\ c2s[a] # << >> /\ c2s'[a] = Tail(c2s[a])
  /\ srv[a] = "OPEN" /\ srv'[a] = "OPEN"
  /\ rs'[a] = rs[a]

\* The step is peer b's onmessage for the frame at the head of s2c[b].
ClientHandles(b) ==
  /\ s2c[b] # << >> /\ s2c'[b] = Tail(s2c[b])
  /\ rs[b] = "OPEN" /\ rs'[b] = "OPEN"

\* How many frames of type t a queue holds.
CountType(q, t) == Cardinality({i \in 1..Len(q) : q[i].ok /\ q[i].type = t})

\* ------------------------------------------------------------------- C1
\* C1: whenever the relay handles a physics_update received from
\* connection a, every connection that is open at that moment, a included,
\* is sent exactly one physics_update whose data is the data a sent and
\* whose timestamp is the relay's clock reading, not a timestamp of a's.
C1_RelayFanOut ==
  [][\A a \in Peers :
       (RelayHandles(a) /\ Head(c2s[a]).ok /\ Head(c2s[a]).type = "physics_update")
         => \E now \in ServerTimes :
              \A d \in Peers :
                srv[d] = "OPEN" =>
                  s2c'[d] = Append(s2c[d],
                                   [ok |-> TRUE, type |-> "physics_update",
                                    data |-> Head(c2s[a]).data,
                                    timestamp |-> {now}])]_vars

\* Both peers, the sender (who supplied timestamp 7) included, hold the
\* relayed add_object stamped by the relay.
C1_Witness ==
  \E now \in ServerTimes :
    \A d \in Peers :
      /\ srv[d] = "OPEN"
      /\ s2c[d] = <<Msg("physics_update", {addObjectData(scenarioBall)}, {now})>>

\* ------------------------------------------------------------------- C2
\* C2: each client_ready received from connection c makes the relay send
\* exactly one physics_init to c, carrying gravity {0, 9.81} and worldBounds
\* {800, 600}; no other connection is sent anything by that step, and no
\* other step sends a physics_init.
C2_InitReply ==
  [][\A c \in Peers :
       /\ (RelayHandles(c) /\ Head(c2s[c]).ok /\ Head(c2s[c]).type = "client_ready")
            => /\ s2c'[c] =
                    Append(s2c[c],
                           [ok |-> TRUE, type |-> "physics_init",
                            data |-> {[NoData EXCEPT
                                         !.gravity = {[x |-> 0, y |-> 9810000]},
                                         !.worldBounds = {[width |-> 800000000,
                                                           height |-> 600000000]}]},
                            timestamp |-> {}])
               /\ \A d \in Peers \ {c} : s2c'[d] = s2c[d]
       /\ CountType(s2c'[c], "physics_init") > CountType(s2c[c], "physics_init")
            => (RelayHandles(c) /\ Head(c2s[c]).ok
                  /\ Head(c2s[c]).type = "client_ready")]_vars

\* One peer holds its physics_init while the other peer is open and was
\* sent nothing.
C2_Witness ==
  \E c \in Peers :
    /\ s2c[c] # << >> /\ Head(s2c[c]).type = "physics_init"
    /\ \A d \in Peers \ {c} : srv[d] = "OPEN" /\ rs[d] = "OPEN" /\ s2c[d] = << >>

\* ------------------------------------------------------------------- C3
\* The typed client has stopped reconnecting: no socket that could still
\* end, no timer, the attempts used up.
GaveUp(c) ==
  /\ kind[c] = "typed" /\ phase[c] = "running"
  /\ rs[c] \in {"NONE", "CLOSED"}
  /\ timers[c] = << >>
  /\ reconnectAttempts[c] = 5

\* C3 as stated: after 5 consecutive failed connection attempts (no open in
\* between) no further attempt is scheduled and the client is closed.
C3_AsStated ==
  \A c \in Peers :
    (kind[c] = "typed" /\ consecFails[c] >= 5)
      => (timers[c] = << >> /\ rs[c] \in {"NONE", "CLOSED"})

\* C3 amended: a connection that ends while reconnectAttempts is already 5
\* schedules nothing, and from then on the client stays closed for good.
\* Counted from the start that is the first attempt and 5 reconnect
\* attempts, 6 consecutive failures; a reconnect is scheduled after each of
\* the first 5.
C3_ReconnectCap ==
  /\ [](\A c \in Peers :
          kind[c] = "typed" =>
            /\ consecFails[c] <= 6
            /\ consecFails[c] = 6 => GaveUp(c)
            /\ (timers[c] # << >> \/ rs[c] \in {"CONNECTING", "OPEN", "CLOSING"})
                 => consecFails[c] <= 5)
  /\ [][\A c \in Peers : GaveUp(c) => GaveUp(c)']_vars

\* Six attempts in a row have failed and the client, whose connection is
\* free to end again, has given up.
C3_Witness ==
  \E c \in Peers : c \in flaky /\ consecFails[c] = 6 /\ GaveUp(c)

C4_EndToEndAdd ==
  [][\A b \in Browsers :
       /\ \A a \in Peers :
            (RelayHandles(a) /\ Head(c2s[a]).ok
               /\ Head(c2s[a]).type = "physics_update"
               /\ srv[b] = "OPEN")
              => /\ Len(s2c'[b]) = Len(s2c[b]) + 1
                 /\ s2c'[b][Len(s2c'[b])].data = Head(c2s[a]).data
       /\ \A o \in RandomBalls \cup {scenarioBall} :
            (ClientHandles(b) /\ Head(s2c[b]).ok
               /\ Head(s2c[b]).type = "physics_update"
               /\ Head(s2c[b]).data = {addObjectData(o)})
              => (o.id \in DOMAIN physicsObjects'[b]
                    /\ physicsObjects'[b][o.id] = o)]_vars

\* ------------------------------------------------------------------- C5
\* C5: every time a client's connection enters the open state the client
\* sends exactly one client_ready on it, as the first message of that
\* connection, and reconnectAttempts is 0 once onopen has run.
C5_ReadyOnOpen ==
  /\ [](\A c \in Browsers :
          /\ ~opened[c] => sentLog[c] = << >>
          /\ opened[c] =>
               /\ sentLog[c] # << >>
               /\ sentLog[c][1] = "client_ready"
               /\ Cardinality({i \in 1..Len(sentLog[c]) :
                                 sentLog[c][i] = "client_ready"}) = 1)
  /\ [][\A c \in Browsers :
          (rs[c] = "CONNECTING" /\ rs'[c] = "OPEN")
            => /\ c2s'[c] = <<[ok |-> TRUE, type |-> "client_ready",
                               data |-> {}, timestamp |-> {}]>>
               /\ sentLog'[c] = <<"client_ready">>
               /\ reconnectAttempts'[c] = 0]_vars

\* A typed client is open again after its first connection ended (which
\* raised reconnectAttempts to 1); it has announced itself once.
C5_Witness ==
  \E c \in Peers :
    /\ kind[c] = "typed" /\ rs[c] = "OPEN"
    /\ drops[c] > 0
    /\ sentLog[c] = <<"client_ready">>
    /\ reconnectAttempts[c] = 0

\* ------------------------------------------------------------------- C6
\* C6: a message passed to sendMessage while the connection is not open is
\* dropped, then and for good: the client transmits only in the step of a
\* sendMessage call made while its socket is open (and, typed client, its
\* flag set), and transmits exactly that call's one message; a (re)connect
\* transmits client_ready and nothing that was passed earlier.
C6_DropWhenNotOpen ==
  [][\A c \in Browsers :
       LET grew == Len(sentLog'[c]) > Len(sentLog[c]) IN
       /\ Len(c2s'[c]) > Len(c2s[c]) => grew
       /\ grew =>
            \/ /\ rs[c] = "CONNECTING" /\ rs'[c] = "OPEN"
               /\ sentLog'[c] = <<"client_ready">>
            \/ /\ rs[c] = "OPEN" /\ rs'[c] = "OPEN"
               /\ kind[c] = "typed" => isConnected[c]
               /\ acts' = acts + 1
               /\ Len(sentLog'[c]) = Len(sentLog[c]) + 1
               /\ Len(c2s'[c]) = Len(c2s[c]) + 1]_vars

\* A plain client added a ball while it was not open (the ball is in its
\* store, one action was taken); it is open now and has transmitted
\* client_ready only.
C6_Witness ==
  \E c \in Peers :
    /\ kind[c] = "plain" /\ rs[c] = "OPEN"
    /\ acts = 1
    /\ "b1" \in DOMAIN physicsObjects[c]
    /\ sentLog[c] = <<"client_ready">>

\* ------------------------------------------------------------------- C7
\* C7: while the connection is open, each local gravity toggle and each
\* locally added object makes the client send exactly one physics_update of
\* the form {type, data, timestamp} that describes the mutation.
C7_MutationsAreSent ==
  [][\A c \in Browsers :
       (/\ rs[c] = "OPEN" /\ isConnected[c]
        /\ acts' = acts + 1
        /\ (gravity'[c] # gravity[c]
              \/ \E o \in RandomBalls :
                   physicsObjects'[c] = StoreSet(physicsObjects[c], o)))
         => /\ Len(c2s'[c]) = Len(c2s[c]) + 1
            /\ LET m == c2s'[c][Len(c2s'[c])] IN
               /\ m.type = "physics_update"
               /\ m.timestamp # {}
               /\ \/ gravity'[c] # gravity[c] /\ \E d \in m.data : d.gravity = {gravity'[c]}
                  \/ \E d \in m.data : \E o \in d.object :
                       physicsObjects'[c] = StoreSet(physicsObjects[c], o)]_vars

\* ------------------------------------------------------------------- C9
\* C9: when a client handles a physics_init, its gravity afterwards equals
\* data.gravity and its bounds equal data.worldBounds, whatever they were.
C9_InitReplacesConfig ==
  [][\A c \in Browsers :
       (ClientHandles(c) /\ Head(s2c[c]).ok /\ Head(s2c[c]).type = "physics_init")
         => \A d \in Head(s2c[c]).data :
              /\ {gravity'[c]} = d.gravity
              /\ {worldBounds'[c]} = d.worldBounds]_vars

\* ------------------------------------------------------------------ C10
\* C10: when a client handles a physics_update whose action is
\* update_gravity or gravity_changed and which carries a gravity value, its
\* gravity afterwards is that value and its store and bounds are unchanged.
C10_GravityUpdate ==
  [][\A c \in Browsers :
       (ClientHandles(c) /\ Head(s2c[c]).ok /\ Head(s2c[c]).type = "physics_update")
         => \A d \in Head(s2c[c]).data :
              (d.action \subseteq {"update_gravity", "gravity_changed"}
                 /\ d.action # {} /\ d.gravity # {})
                => /\ {gravity'[c]} = d.gravity
                   /\ physicsObjects'[c] = physicsObjects[c]
                   /\ worldBounds'[c] = worldBounds[c]]_vars

\* ------------------------------------------------------------------ C11
\* Nothing is in flight and every peer is on the connection it opened
\* first.
Settled ==
  /\ AllConnected
  /\ \A c \in Peers : drops[c] = 0 /\ c2s[c] = << >> /\ s2c[c] = << >>

\* C11: after gravity changes made by clients that all stay connected, once
\* every message in flight has been delivered and handled, all clients hold
\* the same gravity, namely that of the last gravity change the relay
\* handled.
C11_LastWriterWins ==
  (online /\ Settled)
    => /\ \A a \in Browsers : \A b \in Browsers : gravity[a] = gravity[b]
       /\ relayed # {} => \A c \in Browsers : {gravity[c]} = relayed

\* ------------------------------------------------------------------ C12
\* The two demo objects with their initial field values.
DemoStore == StoreSet(StoreSet(<< >>, ball1), ball2)

\* C12: a reset, local (resetSimulation) or inbound (a physics_update with
\* action reset), leaves the store holding exactly ball1 and ball2 with
\* their initial field values, whatever it held before, and leaves gravity
\* unchanged.  Stated for a page that has its canvas.
C12_Reset ==
  /\ [](hasCanvas =>
          \A c \in Browsers : resetStore(physicsObjects[c]) = DemoStore)
  /\ [][hasCanvas =>
          \A c \in Browsers :
            (ClientHandles(c) /\ Head(s2c[c]).ok
               /\ Head(s2c[c]).type = "physics_update"
               /\ \E d \in Head(s2c[c]).data : d.action = {"reset"})
              => /\ physicsObjects'[c] = DemoStore
                 /\ gravity'[c] = gravity[c]]_vars

\* ------------------------------------------------------------------ C13
\* Data of a physics_update that lacks the field its action needs.
LackingData ==
  { [NoData EXCEPT !.action = {a}] :
      a \in {"add_object", "remove_object", "update_gravity"} }

\* f is an unparsable frame, a message of unknown type, or a physics_update
\* whose data is missing or lacks the field its action needs.
Discardable(f) ==
  \/ ~f.ok
  \/ f.type \notin {"physics_init", "physics_update"}
  \/ f.type = "physics_update" /\ (f.data = {} \/ f.data \subseteq LackingData)

\* Such frames as a relay other than this one could deliver.
BadInbound ==
  {malformedFrame, Msg("bogus", {}, {}), Msg("physics_update", {}, {1000})}
    \cup { Msg("physics_update", {d}, {1000}) : d \in LackingData }

C14_RelayDiscards ==
  [][\A c \in Peers :
       (RelayHandles(c)
          /\ (~Head(c2s[c]).ok
                \/ Head(c2s[c]).type \notin {"physics_update", "client_ready"}))
         => /\ s2c' = s2c
            /\ clients' = clients /\ c \in Members(clients')
            /\ srv' = srv /\ srv'[c] = "OPEN"
            /\ c2s'[c] = Tail(c2s[c])]_vars

\* A foreign peer, still on its first connection, sent an unparsable frame
\* or a message of unknown type; the relay has handled it and the peer is
\* registered and open.
C14_Witness ==
  \E r \in Peers \ Browsers :
    /\ sentLog[r] \in {<<"">>, <<"bogus">>}
    /\ c2s[r] = << >> /\ drops[r] = 0
    /\ rs[r] = "OPEN" /\ srv[r] = "OPEN" /\ r \in Members(clients)

\* ------------------------------------------------------------------ C15
\* C15: when the relay's socket for connection c closes or fails, c is
\* removed from `clients`, nothing is sent to any connection by that step,
\* the other connections stay registered, and from then on c is sent no
\* broadcast: an ended socket is never a member, and only an open member
\* is ever sent anything.
C15_Departure ==
  /\ [](\A c \in Peers : srv[c] = "CLOSED" => c \notin Members(clients))
  /\ [][\A c \in Peers :
          /\ (srv[c] \in {"CONNECTING", "OPEN"} /\ srv'[c] = "CLOSED")
               => /\ clients' = SelectSeq(clients, LAMBDA x : x # c)
                  /\ s2c' = s2c
          /\ (srv[c] # "OPEN" \/ c \notin Members(clients))
               => Len(s2c'[c]) <= Len(s2c[c])]_vars

\* A foreign peer d sent an add_object while every peer was connected.
\* The relay's socket for the typed client c ended before the relay handled
\* the frame: d holds the broadcast, and c, whose own socket is still open
\* and has lost nothing, was sent none (its store has no b1).
C15_Witness ==
  \E c \in Browsers : \E d \in Peers \ Browsers : \E now \in ServerTimes :
    /\ kind[c] = "typed" /\ online /\ \A e \in Peers : drops[e] = 0
    /\ srv[c] = "CLOSED" /\ c \notin Members(clients)
    /\ rs[c] = "OPEN" /\ s2c[c] = << >>
    /\ "b1" \notin DOMAIN physicsObjects[c]
    /\ d \in Members(clients)
    /\ s2c[d] = <<Msg("physics_update", {addObjectData(scenarioBall)}, {now})>>

\* ------------------------------------------------------------------ C16
\* C16: toggling is a flip between 0 and 9.81: starting from 9.81, while
\* nothing but the toggle assigns gravity, gravity.y is 9.81 after every
\* even number of toggles (toggling to 0 and back restores exactly 9.81)
\* and 0 after every odd number; and from either value two toggles give
\* the starting value back.
C16_ToggleRoundTrip ==
  \A c \in Browsers :
    /\ gravity[c].y = IF toggles[c] % 2 = 0 THEN gravityOn ELSE 0
    /\ gravity[c].y \in {0, gravityOn} => toggled(toggled(gravity[c])) = gravity[c]

\* A browser toggled gravity off and on again.
C16_Witness ==
  \E c \in Browsers : toggles[c] = 2 /\ gravity[c] = defaultGravity

\* ------------------------------------------------------------------ C17
\* The object with id k of browser c before and after the animation frame
\* with delta dt that c can take next: before the frame, after its
\* integration, after its collision response.
FrameOf(c, k, dt) ==
  LET o == physicsObjects[c][k] IN
  [old |-> o, moved |-> integrate(o, gravity[c], dt),
   new |-> updateObject(o, gravity[c], worldBounds[c], dt)]

\* The boundaries that circle o is flush against while the velocity of v
\* is directed out of the bounds there.
Outward(o, v, b) ==
  {side \in {"left", "right", "bottom", "top"} :
     \/ side = "left" /\ o.x - o.radius = 0 /\ v.vx < 0
     \/ side = "right" /\ o.x + o.radius = b.width /\ v.vx > 0
     \/ side = "bottom" /\ o.y + o.radius = b.height /\ v.vy > 0
     \/ side = "top" /\ o.y - o.radius = 0 /\ v.vy < 0}

\* Circle n is flush against the boundary side, and its velocity component
\* normal to it points back into the bounds or is zero.
Returned(n, b, side) ==
  CASE side = "left" -> n.x - n.radius = 0 /\ n.vx >= 0
    [] side = "right" -> n.x + n.radius = b.width /\ n.vx <= 0
    [] side = "bottom" -> n.y + n.radius = b.height /\ n.vy <= 0
    [] side = "top" -> n.y - n.radius = 0 /\ n.vy >= 0

\* C17 as claimed: for every circle flush against a boundary with a
\* velocity out of the bounds, after an animation frame of any delta, zero
\* included, the position is flush against that boundary and the velocity
\* component normal to it points back into the bounds or is zero.
C17_BoundaryIdempotence ==
  \A c \in Browsers : \A dt \in DeltaTimes :
    UserCan(c) => \A k \in DOMAIN physicsObjects[c] :
      LET f == FrameOf(c, k, dt) IN
      f.old.type = "circle" =>
        \A side \in Outward(f.old, f.old, worldBounds[c]) :
          Returned(f.new, worldBounds[c], side)

\* A circle of positive radius that is not wider or higher than the world.
Fits(o, b) ==
  /\ o.type = "circle" /\ o.radius > 0
  /\ 2 * o.radius <= b.width /\ 2 * o.radius <= b.height

\* C17, amended: for every circle of positive radius that fits into the
\* world and is flush against a boundary with a velocity out of the
\* bounds that is still directed out of the bounds after the frame's
\* gravity increment, after an animation frame with a positive delta the
\* position is flush against that boundary and the velocity component
\* normal to it points back into the bounds or is zero.
C17_BoundaryIdempotencePositive ==
  \A c \in Browsers : \A dt \in DeltaTimes :
    (UserCan(c) /\ dt > 0) => \A k \in DOMAIN physicsObjects[c] :
      LET f == FrameOf(c, k, dt) IN
      Fits(f.old, worldBounds[c]) =>
        \A side \in Outward(f.old, f.old, worldBounds[c])
                      \cap Outward(f.old, f.moved, worldBounds[c]) :
          Returned(f.new, worldBounds[c], side)

\* A frame returned the circle that had been put flush against the left
\* boundary, moving left at 2, to that boundary, now moving right at 1.6.
C17_Witness ==
  \E c \in Browsers :
    /\ "obj" \in DOMAIN physicsObjects[c] /\ acts >= 2
    /\ LET o == physicsObjects[c]["obj"] IN
       /\ o.type = "circle" /\ o.radius = 20000000
       /\ o.x = o.radius /\ o.vx = 1600000 /\ o.y >= 300000000

\* ------------------------------------------------------------------ C18
\* The boundaries that the circle p, as the integration left it, is beyond.
Crossed(p, b) ==
  {side \in {"left", "right", "bottom", "top"} :
     \/ side = "left" /\ p.x - p.radius < 0
     \/ side = "right" /\ p.x + p.radius > b.width
     \/ side = "bottom" /\ p.y + p.radius > b.height
     \/ side = "top" /\ p.y - p.radius < 0}

\* The velocity component normal to each crossed boundary is, after the
\* frame, -0.8 times what it was before the collision response.
Reflected(f, b) ==
  /\ Crossed(f.moved, b) \cap {"left", "right"} # {}
       => 5 * f.new.vx = (0 - 4) * f.moved.vx
  /\ Crossed(f.moved, b) \cap {"bottom", "top"} # {}
       => 5 * f.new.vy = (0 - 4) * f.moved.vy

\* C18 as claimed: in every animation frame in which a circle crosses a
\* boundary, the velocity component normal to that boundary is afterwards
\* -0.8 times what it was just before the frame's collision response,
\* however many boundaries the circle crosses in the frame.
C18_EnergyLoss ==
  \A c \in Browsers : \A dt \in DeltaTimes :
    UserCan(c) => \A k \in DOMAIN physicsObjects[c] :
      LET f == FrameOf(c, k, dt) IN
      f.old.type = "circle" => Reflected(f, worldBounds[c])

\* C18, amended: in every animation frame in which a circle of positive
\* radius that fits into the world crosses a boundary, the velocity
\* component normal to that boundary is afterwards -0.8 times what it was
\* just before the frame's collision response; this holds as well when the
\* circle crosses two boundaries (a corner) in the frame.
C18_EnergyLossFitting ==
  \A c \in Browsers : \A dt \in DeltaTimes :
    UserCan(c) => \A k \in DOMAIN physicsObjects[c] :
      LET f == FrameOf(c, k, dt) IN
      Fits(f.old, worldBounds[c]) => Reflected(f, worldBounds[c])

\* A frame of a quarter of a second took the circle that had been put in
\* the top left corner, moving left at 2 and up at 4, across both
\* boundaries: it is in the corner again, moving right at 1.6 and down at
\* 0.8 x (4 - 9.81 / 4) = 1.238.
C18_Witness ==
  \E c \in Browsers :
    /\ "obj" \in DOMAIN physicsObjects[c] /\ acts >= 2
    /\ LET o == physicsObjects[c]["obj"] IN
       /\ o.type = "circle" /\ o.radius = 20000000
       /\ o.x = o.radius /\ o.y = o.radius
       /\ o.vx = 1600000 /\ o.vy = 1238000

\* ------------------------------------------------------------------ C19
\* C19: at most one reconnect is outstanding: a client never has more than
\* one reconnect timer pending, and none while its socket is connecting or
\* open, whatever the order of socket errors, closes, throwing
\* constructors, disconnect() calls and timer expiries.
C19_OneReconnect ==
  \A c \in Peers :
    /\ Len(timers[c]) <= 1
    /\ timers[c] # << >> => rs[c] \notin {"CONNECTING", "OPEN"}

\* The typed client's second reconnect is pending: its socket is closed
\* and the one timer of 2000 ms is armed.
C19_Witness ==
  \E c \in Browsers :
    /\ kind[c] = "typed" /\ rs[c] = "CLOSED"
    /\ reconnectAttempts[c] = 2 /\ timers[c] = <<2000>>

\* ------------------------------------------------------------------ C20
\* C20: when the relay broadcasts a physics_update and sending to one
\* connection throws, every other open connection is still sent that
\* broadcast, the relay goes on serving (the sender's socket stays open)
\* and no other connection leaves the connection set.
C20_SendFailureIsolated ==
  [][\A a \in Peers :
       (RelayHandles(a) /\ Head(c2s[a]).ok /\ Head(c2s[a]).type = "physics_update"
          /\ \E f \in sendFails : srv[f] = "OPEN")
         => /\ \E now \in ServerTimes :
                 \A d \in Peers \ sendFails :
                   srv[d] = "OPEN" =>
                     s2c'[d] = Append(s2c[d],
                                      [ok |-> TRUE, type |-> "physics_update",
                                       data |-> Head(c2s[a]).data,
                                       timestamp |-> {now}])
            /\ Members(clients') \ sendFails = Members(clients) \ sendFails]_vars

\* ------------------------------------------------------------------ C21
\* C21: the relay keeps no state of the simulation: handling an inbound
\* frame (client_ready, physics_update, unknown type, malformed JSON)
\* leaves `clients` as it was, and the physics_init sent for a
\* client_ready is the constant default configuration, whatever gravity
\* changes were relayed before.
C21_RelayStateless ==
  [][\A a \in Peers :
       RelayHandles(a)
         => /\ clients' = clients
            /\ (Head(c2s[a]).ok /\ Head(c2s[a]).type = "client_ready")
                 => /\ s2c'[a] # s2c[a]
                    /\ LET m == s2c'[a][Len(s2c'[a])] IN
                       /\ m.ok /\ m.type = "physics_init"
                       /\ \A d \in m.data :
                            /\ d.gravity = {defaultGravity}
                            /\ d.worldBounds = {defaultBounds}]_vars

\* The relay relayed a gravity change other than the default while
\* browser c was connected (c took the broadcast); only then did it handle
\* c's client_ready: c holds the default physics_init.
C21_Witness ==
  \E c \in Browsers :
    /\ online /\ \A e \in Peers : drops[e] = 0
    /\ relayed # {} /\ relayed # {defaultGravity}
    /\ rs[c] = "OPEN" /\ srv[c] = "OPEN"
    /\ s2c[c] = <<Stringify(Msg("physics_init", {physicsInitData}, {}))>>

\* ------------------------------------------------------------------ C22
\* C22: a store holds at most one object per id (each object is stored
\* under its own id), and adding an object whose id is present, by a local
\* add or by an inbound add_object (another peer's or the client's own,
\* relayed back), replaces the stored object by the new one, field for
\* field, and leaves the ids of the store and every other object as they
\* were.
C22_Upsert ==
  /\ [](\A c \in Browsers : \A k \in DOMAIN physicsObjects[c] :
          physicsObjects[c][k].id = k)
  /\ [][\A c \in Browsers :
          /\ \A o \in RandomBalls \cup {scenarioBall} :
               (ClientHandles(c) /\ Head(s2c[c]).ok
                  /\ Head(s2c[c]).type = "physics_update"
                  /\ Head(s2c[c]).data = {addObjectData(o)}
                  /\ o.id \in DOMAIN physicsObjects[c])
                 => physicsObjects'[c] = [physicsObjects[c] EXCEPT ![o.id] = o]
          /\ \A k \in DOMAIN physicsObjects[c] \cap DOMAIN physicsObjects'[c] :
               (acts' = acts + 1 /\ physicsObjects'[c][k] # physicsObjects[c][k])
                 => \E o \in RandomBalls :
                      /\ o.id = k
                      /\ physicsObjects'[c] = [physicsObjects[c] EXCEPT ![k] = o]]_vars

\* ------------------------------------------------------------------ C23
\* C23: when a client handles a physics_update with action remove_object
\* and id k, its store afterwards is the store before without k: the
\* object with id k is gone, every other object is as it was, and a store
\* without k is unchanged.
C23_RemoveObject ==
  [][\A c \in Browsers : \A k \in {"ball1", "ball2", "b1", "obj"} :
       (ClientHandles(c) /\ Head(s2c[c]).ok
          /\ Head(s2c[c]).type = "physics_update"
          /\ Head(s2c[c]).data = {removeData(k)})
         => physicsObjects'[c] =
              [j \in DOMAIN physicsObjects[c] \ {k} |-> physicsObjects[c][j]]]_vars

\* ------------------------------------------------------------------ C24
\* C24: an animation frame adds and removes no object and changes no
\* object's id, mass, type or radius: the frame that a browser can take
\* next leaves the ids of its store and these fields of every object as
\* they are; and the ids of a store change only when an object is added
\* (the demo objects of setupCanvas, an object from outside), never in a
\* frame.  (Inbound remove_object and reset are not taken here.)
C24_TickKeepsObjects ==
  /\ [](\A c \in Browsers : \A dt \in DeltaTimes :
          UserCan(c) =>
            LET s == physicsObjects[c]
                n == updatePhysics(s, gravity[c], worldBounds[c], dt)
            IN /\ DOMAIN n = DOMAIN s
               /\ \A k \in DOMAIN s :
                    /\ n[k].id = s[k].id /\ n[k].mass = s[k].mass
                    /\ n[k].type = s[k].type /\ n[k].radius = s[k].radius)
  /\ [][\A c \in Browsers :
          DOMAIN physicsObjects'[c] # DOMAIN physicsObjects[c]
            => \/ phase[c] = "new" /\ physicsObjects'[c] = setupCanvas(physicsObjects[c])
               \/ \E o \in PhysicsInputs :
                    physicsObjects'[c] = StoreSet(physicsObjects[c], o)]_vars

\* A frame of a quarter of a second moved the box that had been put at
\* x = 1, moving left at 2, to x = -29: it has left the world and is still
\* in the store, a box of the same mass and radius.
C24_Witness ==
  \E c \in Browsers :
    /\ "obj" \in DOMAIN physicsObjects[c] /\ acts >= 2
    /\ LET o == physicsObjects[c]["obj"] IN
       /\ o.id = "obj" /\ o.type = "box" /\ o.x = -29000000
       /\ o.mass = 1000000 /\ o.radius = 20000000

\* C25: the render loop.  A browser whose constructor has run always has
\* exactly one frame callback pending (never two, and never none: the loop
\* keeps ticking whatever messages arrive); and every frame integrates
\* every object of the store once, all with the same delta, and leaves
\* one callback pending.  (Painting changes no state.)
C25_RenderLoop ==
  /\ [](\A c \in Browsers : phase[c] = "running" => frames[c] = 1)
  /\ [][\A c \in Browsers :
          ticks'[c] # ticks[c]
            => /\ ticks'[c] = ticks[c] + 1
               /\ frames'[c] = 1
               /\ \A k \in DOMAIN physicsObjects[c] : ~throwsOn(physicsObjects[c][k])
               /\ \E dt \in DeltaTimes :
                    physicsObjects'[c] =
                      updatePhysics(physicsObjects[c], gravity[c], worldBounds[c], dt)]_vars

\* The typed client has stored the object without a velocity that a peer
\* sent, its next frame has thrown, and no frame is pending any more.
C25_LoopStopped ==
  \E c \in Browsers :
    /\ phase[c] = "running" /\ frames[c] = 0 /\ ticks[c] = 1
    /\ "b1" \in DOMAIN physicsObjects[c] /\ throwsOn(physicsObjects[c]["b1"])

\* ------------------------------------------------------------------ C26
\* C26: whenever the last plain request was for the page with index.html
\* missing, for the script with client.js missing, or for a path the server
\* does not know, the handler has not failed and has answered with status
\* 404 and a body that is not empty.
C26_MissingIs404 ==
  \A p \in response.path :
    (\/ p = "/" /\ "index.html" \notin files
     \/ p = "/client.js" /\ "client.js" \notin files
     \/ p \notin {"/", "/client.js", "/ws"})
      => /\ ~response.rejected
         /\ response.status = {404}
         /\ response.body # {} /\ "" \notin response.body

\* ------------------------------------------------------------------ C27
\* Connection attempts (calls of new WebSocket) of peer c since its last
\* open, or since the start: those that failed and the one under way.
AttemptsSinceOpen(c) ==
  consecFails[c] + (IF rs[c] = "CONNECTING" THEN 1 ELSE 0)

\* C27: in the typed client reconnectAttempts is always within 0..5, and
\* since the last open (or since the start) the client has made at most
\* 1 + 5 connection attempts; and whenever a connection that had opened
\* ends, however many connections opened and ended before it, the counter
\* goes from 0 to 1 and a reconnect is scheduled with the first delay.
C27_RetryCount ==
  /\ [](\A c \in Peers :
          kind[c] = "typed" =>
            /\ reconnectAttempts[c] \in 0..maxReconnectAttempts
            /\ AttemptsSinceOpen(c) <= 1 + maxReconnectAttempts
            /\ (opened[c] /\ rs[c] \in {"OPEN", "CLOSING"}) => reconnectAttempts[c] = 0)
  /\ [][\A c \in Peers :
          (kind[c] = "typed" /\ opened[c] /\ rs[c] \in {"OPEN", "CLOSING"}
             /\ rs'[c] = "CLOSED")
            => /\ reconnectAttempts'[c] = 1
               /\ timers'[c] = <<baseDelay>>
               /\ AttemptsSinceOpen(c)' = 0]_vars

\* The first attempt and four reconnect attempts have failed, the counter
\* is at 5, and the sixth attempt is under way.
C27_Witness ==
  \E c \in Peers :
    /\ kind[c] = "typed" /\ rs[c] = "CONNECTING"
    /\ consecFails[c] = 5 /\ reconnectAttempts[c] = 5
    /\ AttemptsSinceOpen(c) = 6 /\ timers[c] = << >>

\* ------------------------------------------------------------------ C28
\* The socket held by peer c has fired open and neither close nor error.
\* (A socket on which close() was called is CLOSING until its close event.)
LiveSocket(c) == opened[c] /\ rs[c] \in {"OPEN", "CLOSING"}

\* C28: in the typed client isConnected is true only while the socket it
\* holds has fired open and neither close nor error, and it becomes true
\* only in the open event; so a sendMessage called in any state hands its
\* message to the socket only when that socket is live: never to a socket
\* still connecting (whose send would throw), never where there is no
\* socket or only the closed socket of an earlier connection; and whatever
\* the client transmits goes out on an open socket.
C28_ConnectedMeansLive ==
  /\ [](\A c \in Peers :
          kind[c] = "typed" =>
            /\ isConnected[c] => LiveSocket(c)
            /\ sendMessage("typed", rs[c], isConnected[c]) # "dropped" => LiveSocket(c)
            /\ sendMessage("typed", rs[c], isConnected[c]) # "threw")
  /\ [][\A c \in Peers :
          kind[c] = "typed" =>
            /\ (~isConnected[c] /\ isConnected'[c])
                 => (rs[c] = "CONNECTING" /\ rs'[c] = "OPEN")
            /\ (Len(sentLog'[c]) > Len(sentLog[c]))
                 => (rs'[c] = "OPEN" /\ opened'[c])]_vars

\* The typed client is reconnecting: an earlier connection has ended, the
\* timer has fired and the new socket is still connecting; the user can
\* act, and the message of that action will not reach the socket.
C28_Witness ==
  \E c \in Peers :
    /\ kind[c] = "typed" /\ UserCan(c)
    /\ rs[c] = "CONNECTING" /\ reconnectAttempts[c] >= 1 /\ timers[c] = << >>
    /\ ~isConnected[c]
    /\ sendMessage("typed", rs[c], isConnected[c]) = "dropped"

\* ------------------------------------------------------------------ C29
\* Object n lies entirely inside the bounds b.
Inside(n, b) ==
  /\ n.radius <= n.x /\ n.x <= b.width - n.radius
  /\ n.radius <= n.y /\ n.y <= b.height - n.radius

====
